---- MODULE Spec2Model ----
(***************************************************************************)
(* A model of patchwork's label-aware sampling (patchwork/_sample.py) and  *)
(* of its file-type classifier (patchwork/loaders.py).                     *)
(*                                                                         *)
(* A label table (a pandas DataFrame) is a record                          *)
(*     [columns |-> sequence of column names, rows |-> sequence of rows]   *)
(* where a row maps every column name to its value and the row's index is  *)
(* its position (the default RangeIndex, from 1 here).  A category column  *)
(* holds 0, 1 or NaN.  Probabilities are exact fractions <<num, den>>.     *)
(***************************************************************************)
EXTENDS Integers, Sequences, FiniteSets, TLC

\* ---------------------------------------------------------------- bounds
\* rows of a label table
MaxRows == 2
\* largest number of samples N asked of a sampler
MaxN == 2
\* longest list of file paths handed to the file-type classifier
MaxFps == 2

\* ------------------------------------------------------------- constants
PROTECTED_COLUMN_NAMES == {"filepath", "exclude", "viewpath", "validation", "subset"}

\* the missing value of a category column (pandas NaN / None): an integer
\* that is none of 0, 1, -1, so that it compares with the labels
NaN == 9

\* the category columns a table may have: a table has a prefix of these
\* (the classes of _prepare_df_for_stratified_sampling's docstring)
CatNames == <<"foo", "bar">>

\* Python's None and a value that is not None
None == [none |-> TRUE]
Some(v) == [none |-> FALSE, val |-> v]

\* ------------------------------------------------------------- utilities
Range(s) == {s[k] : k \in 1..Len(s)}

RECURSIVE Sum(_)
Sum(s) == IF s = <<>> THEN 0 ELSE Head(s) + Sum(Tail(s))

\* numpy's prod over one axis: the empty product is 1
RECURSIVE prod(_)
prod(s) == IF s = <<>> THEN 1 ELSE Head(s) * prod(Tail(s))

isnull(v) == v = NaN
notnull(v) == v # NaN

\* ------------------------------------------------------------ label tables
\* [x for x in df.columns if x not in PROTECTED_COLUMN_NAMES]
IsLabelType(x) == x \notin PROTECTED_COLUMN_NAMES
label_types(df) == SelectSeq(df.columns, IsLabelType)

Index(df) == 1..Len(df.rows)

\* a plausible slip: the mask reduced with any() instead of prod()
find_unlabeled_AnyMissing(df) ==
    LET lt == label_types(df)
    IN  [r \in Index(df) |-> \E k \in 1..Len(lt) : isnull(df.rows[r][lt[k]])]

\* pd.isnull(df[label_types]).values.prod(axis=1).astype(bool)
find_unlabeled(df) ==
    LET lt == label_types(df)
    IN  [r \in Index(df) |->
            prod([k \in 1..Len(lt) |-> IF isnull(df.rows[r][lt[k]]) THEN 1 ELSE 0]) # 0]

\* pd.notnull(df[label_types]).values.prod(axis=1).astype(bool)
find_fully_labeled(df) ==
    LET lt == label_types(df)
    IN  [r \in Index(df) |->
            prod([k \in 1..Len(lt) |-> IF notnull(df.rows[r][lt[k]]) THEN 1 ELSE 0]) # 0]

\* a plausible slip: "partially labeled" taken as "not unlabeled"
find_partially_labeled_NotUnlabeled(df) ==
    [r \in Index(df) |-> ~find_unlabeled(df)[r]]

\* (~find_unlabeled(df)) & (~find_fully_labeled(df))
find_partially_labeled(df) ==
    [r \in Index(df) |-> (~find_unlabeled(df)[r]) /\ (~find_fully_labeled(df)[r])]

\* (df["exclude"] != True) & (df["validation"] != True)
not_excluded(df) ==
    [r \in Index(df) |-> df.rows[r]["exclude"] # TRUE /\ df.rows[r]["validation"] # TRUE]

\* df[subset].index.values for subset = not_excluded & (df[c] == l):
\* the matching row indices in table order
SubsetIndex(df, c, l) ==
    SelectSeq([r \in Index(df) |-> r],
              LAMBDA r : not_excluded(df)[r] /\ df.rows[r][c] = l)

\* the two nested loops, flattened: step k visits category (k+1) \div 2
\* with label (k+1) % 2, i.e. every category in column order, 0 before 1
RECURSIVE PrepareLoop(_, _, _)
PrepareLoop(df, categories, k) ==
    IF k > 2 * Len(categories) THEN <<>>
    ELSE LET c == categories[(k + 1) \div 2]
             l == (k + 1) % 2
             subset == SubsetIndex(df, c, l)
         IN  (IF Len(subset) > 0 THEN <<subset>> ELSE <<>>)
                 \o PrepareLoop(df, categories, k + 1)

\* a plausible slip: the exclusion mask left out of the subset
PrepareNoMask(df) ==
    LET cats == label_types(df)
        Pool(k) == SelectSeq([r \in Index(df) |-> r],
                             LAMBDA r : df.rows[r][cats[(k + 1) \div 2]] = (k + 1) % 2)
        RECURSIVE Loop(_)
        Loop(k) == IF k > 2 * Len(cats) THEN <<>>
                   ELSE (IF Len(Pool(k)) > 0 THEN <<Pool(k)>> ELSE <<>>) \o Loop(k + 1)
    IN  Loop(1)

_prepare_df_for_stratified_sampling(df) == PrepareLoop(df, label_types(df), 1)

\* ------------------------------------------------------------ input tables
\* Rows are enumerated by a code: bit 0 is exclude, bit 1 is validation and
\* the k-th base-3 digit above them is the k-th category's value (2 = NaN).
RECURSIVE Pow3(_)
Pow3(k) == IF k = 0 THEN 1 ELSE 3 * Pow3(k - 1)

Digit(code, k) == ((code \div 4) \div Pow3(k - 1)) % 3

Columns(ncat) == <<"filepath", "exclude", "validation">> \o SubSeq(CatNames, 1, ncat)

RowOf(r, code, ncat) ==
    [c \in Range(Columns(ncat)) |->
        CASE c = "filepath"   -> <<"img", r>>
          [] c = "exclude"    -> (code % 2 = 1)
          [] c = "validation" -> ((code \div 2) % 2 = 1)
          [] OTHER -> LET k == CHOOSE k \in 1..ncat : CatNames[k] = c
                          d == Digit(code, k)
                      IN  IF d = 2 THEN NaN ELSE d]

\* The table of MaxRows rows and ncat category columns with the given row
\* codes.  The functions modelled treat every row alike, so tables are
\* enumerated up to the order of their rows: row codes are non-decreasing.
Table(codes, ncat) ==
    [columns |-> Columns(ncat),
     rows |-> [r \in 1..MaxRows |-> RowOf(r, codes[r], ncat)]]

TableCodes(ncat) ==
    { f \in [1..MaxRows -> 0..(4 * Pow3(ncat) - 1)] :
        \A r \in 1..(MaxRows - 1) : f[r] <= f[r + 1] }

\* the table before the caller has filled it
EmptyTable == [columns |-> Columns(0), rows |-> <<>>]

\* ------------------------------------------------------------------ state
VARIABLES
    df,         \* the caller's label table
    indexlist,  \* stratified_sample's indexlist: None, or the pools
    pc,         \* "start", "idle", "loop" (inside stratified_sample), "done", "error"
    op,         \* the operation called
    err,        \* the exception raised, "none" when none
    sampling,   \* stratified_sample's policy argument
    N,          \* the number of samples asked for
    p,          \* the normalized sampling probabilities, <<num, den>> each
    inds,       \* np.zeros(N), filled by the loop
    n,          \* iterations of the loop completed
    i,          \* the pool chosen by the last draw (0 before the first)
    j,          \* the row index chosen by the last draw (0 before the first)
    drawn,      \* the rows the random source has handed out, in order
    result,     \* what the operation returned
    lpc,        \* the loader's caller: "start", "given", "classified"
    fps,        \* the file paths given to _generate_imtypes
    imtypes,    \* its result
    load,       \* one call of the load function: its configuration, inputs, result
    apc,        \* dataset(): "start", "called", "classified", "built", "done", "error"
    args,       \* its arguments fps, ys, shuffle, batch_size, augment
    classified, \* the path lists _generate_imtypes was applied to, in order
    tags,       \* imtypes, or imtypes0 and imtypes1
    ds,         \* the stream: None before it is constructed
    num_steps,  \* the number of steps reported
    batches,    \* the batches emitted so far
    aerr,       \* the exception raised, "none" when none
    cpc,        \* stratified_training_dataset: "start", "loop", "reordered", "done", "error"
    cargs,      \* its arguments fps, y, mult, batch_size
    indices,    \* np.arange(len(fps)), counted from 1
    nclusters,  \* K = y.max() + 1
    samples_per_cluster,
    cluster,    \* k, the cluster the loop is at
    sampled_indices,
    sampled_labels,
    cerr,       \* the exception raised, "none" when none
    maskgen,    \* mask_generator: its arguments, its locals and the mask yielded
    query       \* find_subset's arguments label_status, exclude_status and s

samplerVars == <<indexlist, pc, op, err, sampling, N, p, inds, n, i, j, drawn, result>>
loaderVars == <<lpc, fps, imtypes>>
assemblerVars == <<apc, args, classified, tags, ds, num_steps, batches, aerr>>
clusterVars == <<cpc, cargs, indices, nclusters, samples_per_cluster, cluster, sampled_indices,
                 sampled_labels, cerr>>
pipelineVars == <<load, assemblerVars, clusterVars, maskgen, query>>
vars == <<df, indexlist, pc, op, err, sampling, N, p, inds, n, i, j, drawn, result,
          lpc, fps, imtypes, load,
          apc, args, classified, tags, ds, num_steps, batches, aerr,
          cpc, cargs, indices, nclusters, samples_per_cluster, cluster, sampled_indices,
          sampled_labels, cerr, maskgen, query>>

NoResult == [kind |-> "none"]

\* ------------------------------------------------------ stratified_sample
\* the policy names tried: the three the code knows and one it does not
Samplings == {"class", "instance", "squareroot", "uniform"}

\* np.sqrt(len(f)) in fixed point: the floor of 10 * sqrt(x)
sqrt(x) ==
    CHOOSE k \in 0..(10 * x) : k * k <= 100 * x /\ 100 * x < (k + 1) * (k + 1)

\* a plausible slip: an unknown policy falls back to uniform weights
SamplingWeightsDefaultClass(il, s) ==
    CASE s = "instance"   -> [raised |-> FALSE, p |-> [k \in 1..Len(il) |-> Len(il[k])]]
      [] s = "squareroot" -> [raised |-> FALSE, p |-> [k \in 1..Len(il) |-> sqrt(Len(il[k]))]]
      [] OTHER            -> [raised |-> FALSE, p |-> [k \in 1..Len(il) |-> 1]]

\* a plausible slip: "instance" weighted like "squareroot"
SamplingWeightsInstanceSqrt(il, s) ==
    CASE s = "class"      -> [raised |-> FALSE, p |-> [k \in 1..Len(il) |-> 1]]
      [] s = "instance"   -> [raised |-> FALSE, p |-> [k \in 1..Len(il) |-> sqrt(Len(il[k]))]]
      [] s = "squareroot" -> [raised |-> FALSE, p |-> [k \in 1..Len(il) |-> sqrt(Len(il[k]))]]
      [] OTHER            -> [raised |-> TRUE, p |-> <<>>]

\* the if/elif chain on sampling: the unnormalized weights, or the failed
\* assertion of the else branch
SamplingWeights(il, s) ==
    CASE s = "class"      -> [raised |-> FALSE, p |-> [k \in 1..Len(il) |-> 1]]
      [] s = "instance"   -> [raised |-> FALSE, p |-> [k \in 1..Len(il) |-> Len(il[k])]]
      [] s = "squareroot" -> [raised |-> FALSE, p |-> [k \in 1..Len(il) |-> sqrt(Len(il[k]))]]
      [] OTHER            -> [raised |-> TRUE, p |-> <<>>]

\* p /= p.sum(), kept as exact fractions; an empty p stays empty
Normalize(w) == [k \in 1..Len(w) |-> <<w[k], Sum(w)>>]

\* the caller hands over its label table
LabelTable ==
    /\ pc = "start"
    /\ \E ncat \in 0..Len(CatNames) :
         \E codes \in TableCodes(ncat) : df' = Table(codes, ncat)
    /\ pc' = "idle"
    /\ UNCHANGED <<indexlist, op, err, sampling, N, p, inds, n, i, j, drawn, result>>
    /\ UNCHANGED <<loaderVars, pipelineVars>>

\* the caller computes the pools ahead of the call (the indexlist argument)
Precompute ==
    /\ pc = "idle"
    /\ indexlist.none
    /\ indexlist' = Some(_prepare_df_for_stratified_sampling(df))
    /\ UNCHANGED <<df, pc, op, err, sampling, N, p, inds, n, i, j, drawn, result>>
    /\ UNCHANGED <<loaderVars, pipelineVars>>

\* stratified_sample up to the loop: the pools, the weights, np.zeros(N).
\* With an unknown policy the assertion fails; under python -O, where
\* assert statements are stripped, the next line reads the unbound p.
stratified_sample_Call(s, nn) ==
    /\ pc = "idle"
    /\ op' = "stratified_sample"
    /\ sampling' = s
    /\ N' = nn
    /\ indexlist' = IF indexlist.none
                    THEN Some(_prepare_df_for_stratified_sampling(df))
                    ELSE indexlist
    /\ LET w == SamplingWeights(indexlist'.val, s)
       IN  IF w.raised
           THEN /\ pc' = "error"
                /\ \E optimized \in BOOLEAN :
                     err' = IF optimized THEN "UnboundLocalError" ELSE "AssertionError"
                /\ UNCHANGED <<p, inds>>
           ELSE /\ pc' = "loop"
                /\ p' = Normalize(w.p)
                /\ inds' = [k \in 1..nn |-> 0]
                /\ UNCHANGED err
    /\ UNCHANGED <<df, n, i, j, drawn, result>>
    /\ UNCHANGED <<loaderVars, pipelineVars>>

\* a plausible slip: every draw written to the first slot of inds
StoreFirst(a, k, v) == [a EXCEPT ![1] = v]

\* inds[n] = j
Store(a, k, v) == [a EXCEPT ![k] = v]

\* one iteration of the loop: np.random.choice(sampchoice, p=p) picks a pool
\* of non-zero probability, np.random.choice(indexlist[i]) one of its rows
stratified_sample_Draw ==
    /\ pc = "loop"
    /\ n < N
    /\ Len(indexlist.val) > 0
    /\ \E ii \in {k \in 1..Len(indexlist.val) : p[k][1] > 0} :
         \E jj \in Range(indexlist.val[ii]) :
            /\ i' = ii
            /\ j' = jj
            /\ inds' = Store(inds, n + 1, jj)
            /\ drawn' = Append(drawn, jj)
    /\ n' = n + 1
    /\ UNCHANGED <<df, indexlist, pc, op, err, sampling, N, p, result>>
    /\ UNCHANGED <<loaderVars, pipelineVars>>

\* a plausible slip: with no pool the loop is skipped and an empty sample
\* returned
stratified_sample_DrawEmpty_ReturnsEmpty ==
    /\ pc = "loop"
    /\ n < N
    /\ Len(indexlist.val) = 0
    /\ pc' = "done"
    /\ result' = [kind |-> "sample", return_indices |-> TRUE, first |-> <<>>, ys |-> <<>>]
    /\ UNCHANGED <<df, indexlist, op, err, sampling, N, p, inds, n, i, j, drawn>>
    /\ UNCHANGED <<loaderVars, pipelineVars>>

\* the first iteration with no pool at all: np.random.choice raises
\* ValueError ('a' cannot be empty unless no samples are taken)
stratified_sample_DrawEmpty ==
    /\ pc = "loop"
    /\ n < N
    /\ Len(indexlist.val) = 0
    /\ pc' = "error"
    /\ err' = "ValueError"
    /\ UNCHANGED <<df, indexlist, op, sampling, N, p, inds, n, i, j, drawn, result>>
    /\ UNCHANGED <<loaderVars, pipelineVars>>

\* after the loop: sampled = df.loc[inds,:], ys = sampled[categories].values,
\* and the indices or the file paths with ys.  The frame's locals end here.
stratified_sample_Return(return_indices) ==
    /\ pc = "loop"
    /\ n = N
    /\ LET categories == label_types(df)
           sampled == [k \in 1..N |-> df.rows[inds[k]]]
           ys == [k \in 1..N |->
                    [c \in 1..Len(categories) |-> sampled[k][categories[c]]]]
       IN  result' = [kind |-> "sample",
                      return_indices |-> return_indices,
                      first |-> IF return_indices THEN inds
                                ELSE [k \in 1..N |-> sampled[k]["filepath"]],
                      ys |-> ys]
    /\ pc' = "done"
    /\ p' = <<>>
    /\ inds' = <<>>
    /\ n' = 0
    /\ i' = 0
    /\ j' = 0
    /\ UNCHANGED <<df, indexlist, op, err, sampling, N, drawn>>
    /\ UNCHANGED <<loaderVars, pipelineVars>>

\* ------------------------------------------------------- the table changes
\* between two calls the caller flags a row of its table:
\* df.loc[r, flag] = True for flag "exclude" or "validation"
FlagRow(r, flag) ==
    /\ pc = "idle"
    /\ df.rows[r][flag] = FALSE
    /\ df' = [df EXCEPT !.rows[r][flag] = TRUE]
    /\ UNCHANGED samplerVars
    /\ UNCHANGED <<loaderVars, pipelineVars>>

\* -------------------------------------------------------- unlabeled_sample
\* df["filepath"][find_unlabeled(df)].values
UnlabeledFilepaths(d) ==
    LET rs == SelectSeq([r \in Index(d) |-> r], LAMBDA r : find_unlabeled(d)[r])
    IN  [k \in 1..Len(rs) |-> d.rows[rs[k]]["filepath"]]

\* np.random.choice(unlabeled, size=N, replace=True)
unlabeled_sample(nn) ==
    /\ pc = "idle"
    /\ Len(UnlabeledFilepaths(df)) > 0 \/ nn = 0
    /\ op' = "unlabeled_sample"
    /\ N' = nn
    /\ \E s \in [1..nn -> Range(UnlabeledFilepaths(df))] :
         result' = [kind |-> "filepaths", first |-> s]
    /\ pc' = "done"
    /\ UNCHANGED <<df, indexlist, err, sampling, p, inds, n, i, j, drawn>>
    /\ UNCHANGED <<loaderVars, pipelineVars>>

\* np.random.choice raises ValueError: nothing to choose N > 0 values from
unlabeled_sample_Empty(nn) ==
    /\ pc = "idle"
    /\ Len(UnlabeledFilepaths(df)) = 0
    /\ nn > 0
    /\ op' = "unlabeled_sample"
    /\ N' = nn
    /\ pc' = "error"
    /\ err' = "ValueError"
    /\ UNCHANGED <<df, indexlist, sampling, p, inds, n, i, j, drawn, result>>
    /\ UNCHANGED <<loaderVars, pipelineVars>>

\* ------------------------------------------------------- label predicates
\* the three label-status predicates applied to the table
find_labels ==
    /\ pc = "idle"
    /\ op' = "find_labels"
    /\ result' = [kind |-> "masks",
                  unlabeled |-> find_unlabeled(df),
                  partial |-> find_partially_labeled(df),
                  labeled |-> find_fully_labeled(df)]
    /\ pc' = "done"
    /\ UNCHANGED <<df, indexlist, err, sampling, N, p, inds, n, i, j, drawn>>
    /\ UNCHANGED <<loaderVars, pipelineVars>>

\* ------------------------------------------------------- _generate_imtypes
\* A file path is a sequence of characters.
UPPERCASE == <<"A", "B", "C", "D", "E", "F", "G", "H", "I", "J", "K", "L", "M",
               "N", "O", "P", "Q", "R", "S", "T", "U", "V", "W", "X", "Y", "Z">>
LOWERCASE == <<"a", "b", "c", "d", "e", "f", "g", "h", "i", "j", "k", "l", "m",
               "n", "o", "p", "q", "r", "s", "t", "u", "v", "w", "x", "y", "z">>

\* str.lower()
lower(t) ==
    [k \in 1..Len(t) |->
        IF \E u \in 1..Len(UPPERCASE) : UPPERCASE[u] = t[k]
        THEN LOWERCASE[CHOOSE u \in 1..Len(UPPERCASE) : UPPERCASE[u] = t[k]]
        ELSE t[k]]

\* sub in t
in(sub, t) ==
    \E k \in 0..(Len(t) - Len(sub)) : SubSeq(t, k + 1, k + Len(sub)) = sub

\* the body of the loop: the tag of one path (np.zeros leaves 0, png)
ImType(fp) ==
    LET t == lower(fp)
    IN  IF in(<<".", "j", "p", "g">>, t) \/ in(<<"j", "p", "e", "g">>, t) THEN 1
        ELSE IF in(<<".", "g", "i", "f">>, t) THEN 2
        ELSE IF in(<<".", "t", "i", "f">>, t) THEN 3
        ELSE 0

_generate_imtypes(paths) == [k \in 1..Len(paths) |-> ImType(paths[k])]

\* the paths tried: a directory, a base name and an extension
Dirs == { <<>>,
          <<"j", "p", "e", "g", "/">>,
          <<"a", ".", "g", "i", "f", "/">> }
Stems == { <<"a">>, <<"T", "I", "F">> }
Exts == { <<>>,
          <<".", "j", "p", "g">>,
          <<".", "J", "P", "G">>,
          <<".", "j", "p", "e", "g">>,
          <<".", "g", "i", "f">>,
          <<".", "t", "i", "f">>,
          <<".", "t", "i", "f", "f">>,
          <<".", "P", "N", "G">>,
          <<".", "u", "n", "k", "n", "o", "w", "n">> }
Paths == { d \o b \o e : d \in Dirs, b \in Stems, e \in Exts }

\* the caller's list of file paths
GivePaths ==
    /\ lpc = "start"
    /\ \E len \in 1..MaxFps : fps' \in [1..len -> Paths]
    /\ lpc' = "given"
    /\ UNCHANGED imtypes
    /\ UNCHANGED df
    /\ UNCHANGED <<samplerVars, pipelineVars>>

\* imtypes = _generate_imtypes(fps)
Classify ==
    /\ lpc = "given"
    /\ imtypes' = _generate_imtypes(fps)
    /\ lpc' = "classified"
    /\ UNCHANGED fps
    /\ UNCHANGED df
    /\ UNCHANGED <<samplerVars, pipelineVars>>

\* ---------------------------------------------------- _build_load_function
\* A tensor is known by its shape, the sequence of its axis lengths.  An
\* image file is known by what its decoder yields: the number of frames (of
\* a GIF), the height, the width and the number of channels; a file holds
\* the format its tag names.
MaxSide == 2
MaxFrames == 2
MaxChannels == 3

\* the channel counts a decoder can yield: a JPEG is grey or RGB, a GIF is
\* decoded to RGB, a PNG or a TIFF has one to four channels
NativeChannels(t) ==
    CASE t = 1 -> {1, 3}
      [] t = 2 -> {3}
      [] OTHER -> {1, 2, 3, 4}

Files(t) ==
    [frames : IF t = 2 THEN 1..MaxFrames ELSE {1},
     h : 1..MaxSide, w : 1..MaxSide, c : NativeChannels(t)]

\* tf.image.resize(images, size): a 3-D tensor is height x width x channels,
\* a 4-D one batch x height x width x channels; the spatial axes become size
resize(shape, imshape) ==
    IF Len(shape) = 4 THEN <<shape[1], imshape[1], imshape[2], shape[4]>>
    ELSE <<imshape[1], imshape[2], shape[3]>>

\* tiff_to_array(f, swapaxes=True, norm=norm, num_channels=num_channels):
\* the array of the TIFF, height x width x channels
tiff_to_array(f) == <<f.h, f.w, f.c>>

\* tf.io.decode_jpeg and tf.io.decode_png yield height x width x channels,
\* tf.io.decode_gif yields num_frames x height x width x 3
decode_jpeg(f) == <<f.h, f.w, f.c>>
decode_gif(f) == <<f.frames, f.h, f.w, 3>>
decode_png(f) == <<f.h, f.w, f.c>>

\* tf.concat(num_channels*[resized], -1)
concat(shape, num_channels) ==
    [shape EXCEPT ![Len(shape)] = num_channels * shape[Len(shape)]]

\* resized[:,:,:num_channels]: the third axis cut to its first num_channels
Truncate(shape, num_channels) ==
    [shape EXCEPT ![3] = IF shape[3] < num_channels THEN shape[3] ELSE num_channels]

\* tf.reshape(normed, shape): InvalidArgumentError unless the element
\* counts agree
reshape(shape, target) ==
    IF prod(shape) = prod(target)
    THEN [kind |-> "tensor", shape |-> target, augmented |-> FALSE]
    ELSE [kind |-> "error", err |-> "InvalidArgumentError"]

\* augment_function(imshape, augment)(img): an image of the same shape
augment_function(img) == [img EXCEPT !.augmented = TRUE]

\* _load_img(x, t) of the closure built for (imshape, num_channels,
\* single_channel, augment), on the file f that x names
_load_img(imshape, num_channels, single_channel, augment, t, f) ==
    LET resized == CASE t = 1 -> resize(decode_jpeg(f), imshape)
                     [] t = 2 -> resize(decode_gif(f), imshape)
                     [] t = 3 -> resize(tiff_to_array(f), imshape)
                     [] OTHER -> resize(decode_png(f), imshape)
        stacked == IF single_channel THEN concat(resized, num_channels) ELSE resized
        normed == Truncate(stacked, num_channels)
        img == reshape(normed, <<imshape[1], imshape[2], num_channels>>)
    IN  IF img.kind = "tensor" /\ augment THEN augment_function(img) ELSE img

NoLoad ==
    [pc |-> "start", imshape |-> <<1, 1>>, num_channels |-> 1,
     single_channel |-> FALSE, augment |-> FALSE, t |-> 0,
     file |-> [frames |-> 1, h |-> 1, w |-> 1, c |-> 1],
     img |-> [kind |-> "none"]]

\* _build_load_function(imshape, norm, num_channels, single_channel, augment)
_build_load_function ==
    /\ load.pc = "start"
    /\ \E H \in 1..MaxSide, W \in 1..MaxSide, nc \in 1..MaxChannels,
          single \in BOOLEAN, aug \in BOOLEAN :
         load' = [load EXCEPT !.pc = "built", !.imshape = <<H, W>>,
                              !.num_channels = nc, !.single_channel = single,
                              !.augment = aug]
    /\ UNCHANGED <<df, samplerVars, loaderVars, assemblerVars, clusterVars, maskgen, query>>

\* one call of the load function on a file of the tagged format
LoadImage ==
    /\ load.pc = "built"
    /\ \E t \in 0..3 : \E f \in Files(t) :
         LET img == _load_img(load.imshape, load.num_channels,
                              load.single_channel, load.augment, t, f)
         IN  load' = [load EXCEPT !.pc = IF img.kind = "tensor" THEN "returned"
                                         ELSE "raised",
                                  !.t = t, !.file = f, !.img = img]
    /\ UNCHANGED <<df, samplerVars, loaderVars, assemblerVars, clusterVars, maskgen, query>>

\* ------------------------------------------- dataset / _image_file_dataset
\* longest manifest and largest batch size handed to dataset()
MaxItems == 3
MaxBatch == 2

\* dataset()'s defaults for the image configuration
DefaultNumChannels == 3
DefaultSide == 256
DefaultImshape == <<DefaultSide, DefaultSide>>

\* the numbers of path lists tried in dual-input mode
ComponentCounts == {1, 2, 3}

\* the files of a manifest, and the directory of each side of a dual input
ManifestPaths == { <<"a", ".", "j", "p", "g">>, <<"a", ".", "g", "i", "f">> }
Side == << <<>>, <<"u", "/">>, <<"v", "/">>, <<"w", "/">> >>

\* len(fps): the items of a list of paths, the components of a dual input
len(m) == IF m.single THEN Len(m.lists[1]) ELSE Len(m.lists)

\* int(np.ceil(a / b))
ceil(a, b) == (a + b - 1) \div b

\* what the load function of the default configuration can make of a file
\* tagged t
DefaultOutcomes ==
    [augment \in BOOLEAN |-> [t \in 0..3 |->
        { _load_img(DefaultImshape, DefaultNumChannels, FALSE, augment, t, f) :
            f \in Files(t) }]]

LoadOutcomes(augment, t) == DefaultOutcomes[augment][t]

NoArgs == [fps |-> [single |-> TRUE, lists |-> <<>>], ys |-> None,
           shuffle |-> FALSE, batch_size |-> 1, augment |-> FALSE]

\* dataset(fps, ys, batch_size, augment, shuffle) is called on path input:
\* a list of paths, or a list of equally long lists of paths
dataset_Call ==
    /\ apc = "start"
    /\ \E T \in 1..MaxItems : \E base \in [1..T -> ManifestPaths] :
         \E single \in BOOLEAN, c \in ComponentCounts, labelled \in BOOLEAN :
           \E y \in [1..T -> 0..1], sh \in BOOLEAN, B \in 1..MaxBatch, aug \in BOOLEAN :
             /\ single => c = 1
             /\ ~labelled => y = [k \in 1..T |-> 0]
             /\ args' = [fps |-> [single |-> single,
                                  lists |-> [k \in 1..c |->
                                               [m \in 1..T |-> Side[k] \o base[m]]]],
                         ys |-> IF labelled THEN Some(y) ELSE None,
                         shuffle |-> sh, batch_size |-> B, augment |-> aug]
    /\ apc' = "called"
    /\ UNCHANGED <<classified, tags, ds, num_steps, batches, aerr>>
    /\ UNCHANGED <<df, samplerVars, loaderVars, load, clusterVars, maskgen, query>>

\* the single-input branch up to imtypes = _generate_imtypes(fps)
_image_file_dataset_Single ==
    /\ apc = "called"
    /\ args.fps.single
    /\ classified' = <<args.fps.lists[1]>>
    /\ tags' = <<_generate_imtypes(args.fps.lists[1])>>
    /\ apc' = "classified"
    /\ UNCHANGED <<args, ds, num_steps, batches, aerr>>
    /\ UNCHANGED <<df, samplerVars, loaderVars, load, clusterVars, maskgen, query>>

\* the dual-input branch, its assertion failing
_image_file_dataset_AssertionError ==
    /\ apc = "called"
    /\ ~args.fps.single
    /\ Len(args.fps.lists) # 2
    /\ apc' = "error"
    /\ aerr' = "AssertionError"
    /\ UNCHANGED <<args, classified, tags, ds, num_steps, batches>>
    /\ UNCHANGED <<df, samplerVars, loaderVars, load, clusterVars, maskgen, query>>

\* the dual-input branch with one component under python -O, where assert
\* statements are stripped: fps[0] is classified, fps[1] does not exist
_image_file_dataset_IndexError ==
    /\ apc = "called"
    /\ ~args.fps.single
    /\ Len(args.fps.lists) = 1
    /\ classified' = <<args.fps.lists[1]>>
    /\ apc' = "error"
    /\ aerr' = "IndexError"
    /\ UNCHANGED <<args, tags, ds, num_steps, batches>>
    /\ UNCHANGED <<df, samplerVars, loaderVars, load, clusterVars, maskgen, query>>

\* the dual-input branch up to imtypes1 = _generate_imtypes(fps[1]): with
\* two components, or with more under python -O
_image_file_dataset_Dual ==
    /\ apc = "called"
    /\ ~args.fps.single
    /\ Len(args.fps.lists) >= 2
    /\ classified' = <<args.fps.lists[1], args.fps.lists[2]>>
    /\ tags' = <<_generate_imtypes(args.fps.lists[1]),
                 _generate_imtypes(args.fps.lists[2])>>
    /\ apc' = "classified"
    /\ UNCHANGED <<args, ds, num_steps, batches, aerr>>
    /\ UNCHANGED <<df, samplerVars, loaderVars, load, clusterVars, maskgen, query>>

\* ds.shuffle(len(fps))
ShuffleBuffer(m) == len(m)

\* num_steps: int(np.ceil(len(fps)/batch_size)) of a list of paths,
\* int(np.ceil(len(fps[0])/batch_size)) of a dual input
NumSteps(m, batch_size) ==
    IF m.single THEN ceil(len(m), batch_size)
    ELSE ceil(Len(m.lists[1]), batch_size)

\* tf.data.Dataset.from_tensor_slices((fps, imtypes, ys)), or the same of
\* (fps[0], imtypes0, fps[1], imtypes1, ys): one entry for every position
from_tensor_slices(m, ts, y) ==
    [k \in 1..Len(m.lists[1]) |->
        [x |-> [c \in 1..Len(ts) |-> m.lists[c][k]],
         t |-> [c \in 1..Len(ts) |-> ts[c][k]],
         y |-> y[k]]]

\* the rest of _image_file_dataset and of dataset(): the stream of entries,
\* its shuffle buffer, the load function mapped over it, the batching, and
\* the number of steps
dataset_Return ==
    /\ apc = "classified"
    /\ LET m == args.fps
           y == IF args.ys.none THEN [k \in 1..Len(m.lists[1]) |-> 0] ELSE args.ys.val
       IN  /\ ds' = Some([source |-> from_tensor_slices(m, tags, y),
                          buffer_size |-> IF args.shuffle THEN ShuffleBuffer(m) ELSE 0,
                          buffer |-> <<>>,
                          pending |-> None,
                          batch |-> <<>>])
           /\ num_steps' = NumSteps(m, args.batch_size)
    /\ apc' = "built"
    /\ UNCHANGED <<args, classified, tags, batches, aerr>>
    /\ UNCHANGED <<df, samplerVars, loaderVars, load, clusterVars, maskgen, query>>

\* the stream may take its next entry: none is being loaded and the batch
\* at hand is not full
Fetching ==
    /\ apc = "built"
    /\ ds.val.pending.none
    /\ Len(ds.val.batch) < args.batch_size

\* the shuffle buffer takes the next entry of the stream while it has room
shuffle_Fill ==
    /\ Fetching
    /\ Len(ds.val.source) > 0
    /\ Len(ds.val.buffer) < ds.val.buffer_size
    /\ ds' = Some([ds.val EXCEPT !.source = Tail(@),
                                 !.buffer = Append(@, Head(ds.val.source))])
    /\ UNCHANGED <<args, classified, tags, num_steps, batches, apc, aerr>>
    /\ UNCHANGED <<df, samplerVars, loaderVars, load, clusterVars, maskgen, query>>

\* the shuffle buffer, full or fed to the end, hands on one of its entries
shuffle_Next ==
    /\ Fetching
    /\ Len(ds.val.buffer) > 0
    /\ Len(ds.val.buffer) = ds.val.buffer_size \/ Len(ds.val.source) = 0
    /\ \E k \in 1..Len(ds.val.buffer) :
         ds' = Some([ds.val EXCEPT
                       !.buffer = SubSeq(@, 1, k - 1) \o SubSeq(@, k + 1, Len(@)),
                       !.pending = Some(ds.val.buffer[k])])
    /\ UNCHANGED <<args, classified, tags, num_steps, batches, apc, aerr>>
    /\ UNCHANGED <<df, samplerVars, loaderVars, load, clusterVars, maskgen, query>>

\* without shuffle the entries are handed on in manifest order
source_Next ==
    /\ Fetching
    /\ ~args.shuffle
    /\ Len(ds.val.source) > 0
    /\ ds' = Some([ds.val EXCEPT !.source = Tail(@),
                                 !.pending = Some(Head(ds.val.source))])
    /\ UNCHANGED <<args, classified, tags, num_steps, batches, apc, aerr>>
    /\ UNCHANGED <<df, samplerVars, loaderVars, load, clusterVars, maskgen, query>>

\* the ways the load functions can turn the entry at hand into images, one
\* image for every side
Loads(e) ==
    { imgs \in [1..Len(e.x) -> UNION {LoadOutcomes(args.augment, e.t[c]) : c \in 1..Len(e.x)}] :
        \A c \in 1..Len(e.x) : imgs[c] \in LoadOutcomes(args.augment, e.t[c]) }

\* ds.map(lambda x,t,y: (_load_img(x,t),y)) on the entry at hand, and
\* ds.map(lambda x,y: x) when no labels were passed; the example joins the
\* batch at hand
map_Load ==
    /\ apc = "built"
    /\ ~ds.val.pending.none
    /\ LET e == ds.val.pending.val
       IN  \E imgs \in Loads(e) :
             /\ \A c \in 1..Len(imgs) : imgs[c].kind = "tensor"
             /\ ds' = Some([ds.val EXCEPT
                       !.pending = None,
                       !.batch = Append(@,
                          [x |-> [c \in 1..Len(imgs) |->
                                    [path |-> e.x[c], t |-> e.t[c], img |-> imgs[c]]],
                           y |-> IF args.ys.none THEN None ELSE Some(e.y)])])
    /\ UNCHANGED <<args, classified, tags, num_steps, batches, apc, aerr>>
    /\ UNCHANGED <<df, samplerVars, loaderVars, load, clusterVars, maskgen, query>>

\* the load function raises on the entry at hand: the pass ends there
map_LoadError ==
    /\ apc = "built"
    /\ ~ds.val.pending.none
    /\ \E imgs \in Loads(ds.val.pending.val) :
         \E c \in 1..Len(imgs) :
            /\ imgs[c].kind = "error"
            /\ aerr' = imgs[c].err
    /\ apc' = "error"
    /\ UNCHANGED <<args, classified, tags, ds, num_steps, batches>>
    /\ UNCHANGED <<df, samplerVars, loaderVars, load, clusterVars, maskgen, query>>

Exhausted ==
    /\ Len(ds.val.source) = 0
    /\ Len(ds.val.buffer) = 0
    /\ ds.val.pending.none

\* ds.batch(batch_size): a batch is emitted when full, or when the stream
\* ends with examples at hand
BatchReady(s, batch_size) ==
    \/ Len(s.batch) = batch_size
    \/ (Len(s.source) = 0 /\ Len(s.buffer) = 0 /\ s.pending.none /\ Len(s.batch) > 0)

batch_Next ==
    /\ apc = "built"
    /\ BatchReady(ds.val, args.batch_size)
    /\ batches' = Append(batches, ds.val.batch)
    /\ ds' = Some([ds.val EXCEPT !.batch = <<>>])
    /\ UNCHANGED <<args, classified, tags, num_steps, apc, aerr>>
    /\ UNCHANGED <<df, samplerVars, loaderVars, load, clusterVars, maskgen, query>>

\* the end of the pass
dataset_End ==
    /\ apc = "built"
    /\ Exhausted
    /\ ~BatchReady(ds.val, args.batch_size)
    /\ apc' = "done"
    /\ UNCHANGED <<args, classified, tags, ds, num_steps, batches, aerr>>
    /\ UNCHANGED <<df, samplerVars, loaderVars, load, clusterVars, maskgen, query>>

\* ---------------------------------------------- stratified_training_dataset
\* largest cluster id in y and largest multiplier mult
MaxCluster == 2
MaxMult == 1

\* the i-th file of the list: "a.jpg", "aa.jpg", ...
ItemPath(q) == [c \in 1..q |-> "a"] \o <<".", "j", "p", "g">>

\* y.max()
RECURSIVE max(_)
max(y) == IF Len(y) = 1 THEN y[1]
          ELSE IF Head(y) > max(Tail(y)) THEN Head(y) ELSE max(Tail(y))

\* indices[y == k]: the positions of cluster k (positions count from 1)
ClusterInds(inds0, y, c) == SelectSeq(inds0, LAMBDA q : y[q] = c)

NoClusterArgs == [fps |-> [single |-> TRUE, lists |-> <<>>], y |-> <<>>,
                  mult |-> 1, batch_size |-> 1]

\* stratified_training_dataset(fps, y, mult, batch_size) up to the loop:
\* fps is a list of paths or two equally long lists of paths, y holds one
\* cluster id for every item
stratified_training_dataset_Call ==
    /\ cpc = "start"
    /\ \E T \in 1..MaxFps, single \in BOOLEAN, mult \in 1..MaxMult, B \in 1..MaxBatch :
         \E y \in [1..T -> 0..MaxCluster] :
           LET lists == [c \in 1..(IF single THEN 1 ELSE 2) |->
                            [m \in 1..T |-> Side[c] \o ItemPath(m)]]
               m == [single |-> single, lists |-> lists]
           IN  /\ cargs' = [fps |-> m, y |-> y, mult |-> mult, batch_size |-> B]
               /\ indices' = [q \in 1..len(m) |-> q]
               /\ nclusters' = max(y) + 1
               /\ samples_per_cluster' = mult * (len(m) \div (max(y) + 1))
    /\ cpc' = "loop"
    /\ UNCHANGED <<cluster, sampled_indices, sampled_labels, cerr>>
    /\ UNCHANGED <<df, samplerVars, loaderVars, load, assemblerVars, maskgen, query>>

\* indices[y == k] with a mask that is not as long as indices: IndexError
\* (boolean index did not match indexed array)
stratified_training_dataset_IndexError ==
    /\ cpc = "loop"
    /\ cluster < nclusters
    /\ Len(cargs.y) # Len(indices)
    /\ cpc' = "error"
    /\ cerr' = "IndexError"
    /\ UNCHANGED <<cargs, indices, nclusters, samples_per_cluster, cluster, sampled_indices, sampled_labels>>
    /\ UNCHANGED <<df, samplerVars, loaderVars, load, assemblerVars, maskgen, query>>

\* k*np.ones(len(samps), dtype=np.int64)
ClusterLabels(kk, length) == [q \in 1..length |-> kk]

\* one iteration of the loop for a cluster with members:
\* np.random.choice(cluster_inds, size=samples_per_cluster, replace=True)
stratified_training_dataset_Sample ==
    /\ cpc = "loop"
    /\ cluster < nclusters
    /\ Len(cargs.y) = Len(indices)
    /\ LET cluster_inds == ClusterInds(indices, cargs.y, cluster)
       IN  /\ Len(cluster_inds) > 0
           /\ \E samps \in [1..samples_per_cluster -> Range(cluster_inds)] :
                /\ sampled_indices' = sampled_indices \o samps
                /\ sampled_labels' = sampled_labels \o ClusterLabels(cluster, Len(samps))
    /\ cluster' = cluster + 1
    /\ UNCHANGED <<cargs, indices, nclusters, samples_per_cluster, cpc, cerr>>
    /\ UNCHANGED <<df, samplerVars, loaderVars, load, assemblerVars, maskgen, query>>

\* one iteration of the loop for a cluster without members
stratified_training_dataset_Skip ==
    /\ cpc = "loop"
    /\ cluster < nclusters
    /\ Len(cargs.y) = Len(indices)
    /\ Len(ClusterInds(indices, cargs.y, cluster)) = 0
    /\ cluster' = cluster + 1
    /\ UNCHANGED <<cargs, indices, nclusters, samples_per_cluster, cpc, sampled_indices,
                   sampled_labels, cerr>>
    /\ UNCHANGED <<df, samplerVars, loaderVars, load, assemblerVars, maskgen, query>>

\* sampled_labels[reorder]
Reorder(s, reorder) == [q \in 1..Len(s) |-> s[reorder[q]]]

\* after the loop: the concatenation, and one random order for the indices
\* and the labels: np.random.choice(np.arange(n), size=n, replace=False)
stratified_training_dataset_Reorder ==
    /\ cpc = "loop"
    /\ cluster = nclusters
    /\ \E reorder \in Permutations(1..Len(sampled_indices)) :
         /\ sampled_indices' = Reorder(sampled_indices, reorder)
         /\ sampled_labels' = Reorder(sampled_labels, reorder)
    /\ cpc' = "reordered"
    /\ UNCHANGED <<cargs, indices, nclusters, samples_per_cluster, cluster, cerr>>
    /\ UNCHANGED <<df, samplerVars, loaderVars, load, assemblerVars, maskgen, query>>

\* fps = np.array(fps)[sampled_indices], of both lists of a dual input, and
\* the call of dataset(fps, ys=sampled_labels, shuffle=False)
stratified_training_dataset_Return ==
    /\ cpc = "reordered"
    /\ apc = "start"
    /\ ~(cargs.fps.single /\ Len(sampled_indices) = 0)
    /\ args' = [fps |-> [single |-> cargs.fps.single,
                         lists |-> [c \in 1..Len(cargs.fps.lists) |->
                                      [q \in 1..Len(sampled_indices) |->
                                         cargs.fps.lists[c][sampled_indices[q]]]]],
                ys |-> Some(sampled_labels),
                shuffle |-> FALSE, batch_size |-> cargs.batch_size, augment |-> TRUE]
    /\ apc' = "called"
    /\ cpc' = "done"
    /\ UNCHANGED <<classified, tags, ds, num_steps, batches, aerr>>
    /\ UNCHANGED <<cargs, indices, nclusters, samples_per_cluster, cluster, sampled_indices,
                   sampled_labels, cerr>>
    /\ UNCHANGED <<df, samplerVars, loaderVars, load, maskgen, query>>

\* with nothing sampled from a list of paths, fps[0] in _image_file_dataset
\* raises IndexError
stratified_training_dataset_Empty ==
    /\ cpc = "reordered"
    /\ cargs.fps.single
    /\ Len(sampled_indices) = 0
    /\ cpc' = "error"
    /\ cerr' = "IndexError"
    /\ UNCHANGED <<cargs, indices, nclusters, samples_per_cluster, cluster, sampled_indices, sampled_labels>>
    /\ UNCHANGED <<df, samplerVars, loaderVars, load, assemblerVars, maskgen, query>>

\* ------------------------------------------------------------ mask_generator
\* largest image height and width
MaxDim == 6

\* int(0.05*(H+W)/2) and int(0.45*(H+W)/2)
MaskLow(H, W) == (H + W) \div 40
MaskHigh(H, W) == (9 * (H + W)) \div 40

\* np.random.randint(low, high): the integers of [low, high); ValueError
\* when there is none
randint(low, high) == low..(high - 1)

\* the positions of an axis of length len0 that the slice lo:hi selects, a
\* negative bound counting from the end of the axis
Slice(lo, hi, len0) ==
    LET Clamp(v) == IF v < 0 THEN (IF v + len0 < 0 THEN 0 ELSE v + len0)
                    ELSE (IF v > len0 THEN len0 ELSE v)
    IN  Clamp(lo)..(Clamp(hi) - 1)

NoMask == [pc |-> "start", H |-> 1, W |-> 1, C |-> 1, low |-> 0, high |-> 0,
           xmin |-> 0, ymin |-> 0, xmax |-> 0, ymax |-> 0, mask |-> {}]

\* mask_generator(H, W, C) up to the loop
mask_generator ==
    /\ maskgen.pc = "start"
    /\ \E H \in 1..MaxDim, W \in 1..MaxDim, C \in 1..MaxChannels :
         maskgen' = [maskgen EXCEPT !.pc = "ready", !.H = H, !.W = W, !.C = C,
                                    !.low = MaskLow(H, W), !.high = MaskHigh(H, W)]
    /\ UNCHANGED <<df, samplerVars, loaderVars, load, assemblerVars, clusterVars, query>>

\* one iteration of the loop: the four draws, and the mask yielded, known
\* by the set of its True cells (row, column, channel), counted from 0
mask_generator_Next ==
    /\ maskgen.pc \in {"ready", "yielded"}
    /\ LET g == maskgen
       IN  \E xmin \in randint(g.low, g.high), ymin \in randint(g.low, g.high),
              xmax \in randint(g.W - g.high, g.W - g.low),
              ymax \in randint(g.H - g.high, g.H - g.low) :
             maskgen' = [g EXCEPT !.pc = "yielded",
                            !.xmin = xmin, !.ymin = ymin, !.xmax = xmax, !.ymax = ymax,
                            !.mask = Slice(ymin, ymax, g.H) \X Slice(xmin, xmax, g.W)
                                        \X (0..(g.C - 1))]
    /\ UNCHANGED <<df, samplerVars, loaderVars, load, assemblerVars, clusterVars, query>>

\* np.random.randint(a, b) with a >= b raises ValueError
mask_generator_ValueError ==
    /\ maskgen.pc \in {"ready", "yielded"}
    /\ randint(maskgen.low, maskgen.high) = {}
    /\ maskgen' = [maskgen EXCEPT !.pc = "error"]
    /\ UNCHANGED <<df, samplerVars, loaderVars, load, assemblerVars, clusterVars, query>>

\* -------------------------------------------------------------- find_subset
\* The query s is a sequence of characters, as a file path is.  Chars gives
\* the characters of a column name and of a subset name.
Chars ==
    [filepath |-> <<"f", "i", "l", "e", "p", "a", "t", "h">>,
     exclude |-> <<"e", "x", "c", "l", "u", "d", "e">>,
     validation |-> <<"v", "a", "l", "i", "d", "a", "t", "i", "o", "n">>,
     subset |-> <<"s", "u", "b", "s", "e", "t">>,
     foo |-> <<"f", "o", "o">>,
     subsets |-> <<"s", "u", "b", "s", "e", "t", "s">>,
     contains |-> <<"c", "o", "n", "t", "a", "i", "n", "s">>,
     doesnt_contain |-> <<"d", "o", "e", "s", "n", "'", "t", " ", "c", "o", "n", "t", "a", "i", "n">>,
     unlabeled |-> <<"u", "n", "l", "a", "b", "e", "l", "e", "d">>,
     all |-> <<"a", "l", "l">>,
     a |-> <<"a">>,
     b |-> <<"b">>]

\* the category columns of the tables queried, one of them with a name that
\* holds a keyword of the query language
SubsetCatNames == <<"foo", "subsets">>

\* the values of the subset column
SubsetNames == {"a", "b"}

\* s.replace(old, ""): every occurrence of old removed
RECURSIVE replace(_, _)
replace(s, old) ==
    IF Len(s) < Len(old) THEN s
    ELSE IF SubSeq(s, 1, Len(old)) = old
         THEN replace(SubSeq(s, Len(old) + 1, Len(s)), old)
         ELSE <<Head(s)>> \o replace(Tail(s), old)

\* s.strip(): the blanks at both ends removed
RECURSIVE strip(_)
strip(s) ==
    IF s = <<>> THEN s
    ELSE IF Head(s) = " " THEN strip(Tail(s))
    ELSE IF s[Len(s)] = " " THEN strip(SubSeq(s, 1, Len(s) - 1))
    ELSE s

\* what a function call comes to: a Boolean Series, None, or an exception
Series(mask) == [kind |-> "mask", mask |-> mask]
Raise(e) == [kind |-> "error", err |-> e]

\* df[name]: the column of that name, and whether the table has one (it
\* raises KeyError when not)
HasColumn(d, name) == \E c \in Range(d.columns) : Chars[c] = name
ColumnNamed(d, name) == CHOOSE c \in Range(d.columns) : Chars[c] = name

\* find_subset(df, label_status, exclude_status, s); optimized says that
\* python runs with -O, where assert statements are stripped
find_subset(d, label_status, exclude_status, s, optimized) ==
    LET labBound == label_status \in {"unlabeled", "partial", "labeled"}
        lab == CASE label_status = "unlabeled" -> find_unlabeled(d)
                 [] label_status = "partial" -> find_partially_labeled(d)
                 [] OTHER -> find_fully_labeled(d)
        exBound == exclude_status \in {"not excluded", "excluded", "validation"}
        ex == [r \in Index(d) |->
                 CASE exclude_status = "not excluded" -> d.rows[r]["exclude"] # TRUE
                   [] exclude_status = "excluded" -> d.rows[r]["exclude"] = TRUE
                   [] OTHER -> d.rows[r]["validation"] = TRUE]
        both == [r \in Index(d) |-> lab[r] /\ ex[r]]
        branch ==
            IF s = Chars.all THEN Series(both)
            ELSE IF in(Chars.contains, s)
                 THEN LET x == strip(replace(s, Chars.contains \o <<":">>))
                      IN  IF ~HasColumn(d, x) THEN Raise("KeyError")
                          ELSE Series([r \in Index(d) |->
                                   both[r] /\ d.rows[r][ColumnNamed(d, x)] = 1])
            ELSE IF in(Chars.doesnt_contain, s)
                 THEN LET x == strip(replace(s, Chars.doesnt_contain \o <<":">>))
                      IN  IF ~HasColumn(d, x) THEN Raise("KeyError")
                          ELSE Series([r \in Index(d) |->
                                   both[r] /\ d.rows[r][ColumnNamed(d, x)] = 0])
            ELSE IF in(Chars.subset, s)
                 THEN LET y == strip(replace(s, Chars.subset \o <<":">>))
                      IN  IF ~HasColumn(d, Chars.subset) THEN Raise("KeyError")
                          ELSE Series([r \in Index(d) |->
                                   both[r] /\ d.rows[r]["subset"] = y])
            ELSE LET x == replace(s, Chars.unlabeled \o <<":", " ">>)
                 IN  IF ~HasColumn(d, x) THEN Raise("KeyError")
                     ELSE Series([r \in Index(d) |->
                              both[r] /\ isnull(d.rows[r][ColumnNamed(d, x)])])
        recognized == \/ s = Chars.all
                      \/ in(Chars.contains, s) \/ in(Chars.doesnt_contain, s)
                      \/ in(Chars.subset, s) \/ in(Chars.unlabeled, s)
    IN  IF ~labBound /\ ~optimized THEN Raise("AssertionError")
        ELSE IF ~recognized
             THEN (IF optimized THEN [kind |-> "None"] ELSE Raise("AssertionError"))
        ELSE IF ~labBound \/ ~exBound THEN Raise("UnboundLocalError")
        ELSE branch

\* the queries tried: "all", the four kinds on every category column and
\* subset name, and a string without keyword
Queries ==
    {[kind |-> "all", name |-> "all", s |-> Chars.all],
     [kind |-> "none", name |-> "foo", s |-> Chars.foo]}
    \cup {[kind |-> "contains", name |-> x, s |-> Chars.contains \o <<":", " ">> \o Chars[x]] :
             x \in Range(SubsetCatNames)}
    \cup {[kind |-> "doesn't contain", name |-> x,
           s |-> Chars.doesnt_contain \o <<":", " ">> \o Chars[x]] :
             x \in Range(SubsetCatNames)}
    \cup {[kind |-> "unlabeled", name |-> x, s |-> Chars.unlabeled \o <<":", " ">> \o Chars[x]] :
             x \in Range(SubsetCatNames)}
    \cup {[kind |-> "subset", name |-> y, s |-> Chars.subset \o <<":", " ">> \o Chars[y]] :
             y \in SubsetNames}

NoQuery == [label_status |-> "labeled", exclude_status |-> "not excluded",
            kind |-> "all", name |-> "all", s |-> <<>>]

\* the caller's table for find_subset: find_subset works row by row, so one
\* row is tried, with a subset column
LabelSubsetTable ==
    /\ pc = "start"
    /\ \E exclude \in BOOLEAN, validation \in BOOLEAN, sub \in SubsetNames :
         \E v1 \in {0, 1, NaN}, v2 \in {0, 1, NaN} :
           df' = [columns |-> <<"filepath", "exclude", "validation", "subset">>
                                 \o SubsetCatNames,
                  rows |-> << [c \in {"filepath", "exclude", "validation", "subset"}
                                       \cup Range(SubsetCatNames) |->
                                  CASE c = "filepath" -> <<"img", 1>>
                                    [] c = "exclude" -> exclude
                                    [] c = "validation" -> validation
                                    [] c = "subset" -> Chars[sub]
                                    [] c = SubsetCatNames[1] -> v1
                                    [] OTHER -> v2] >>]
    /\ pc' = "idle"
    /\ UNCHANGED <<indexlist, op, err, sampling, N, p, inds, n, i, j, drawn, result>>
    /\ UNCHANGED <<loaderVars, pipelineVars>>

\* one call of find_subset that returns
find_subset_Return ==
    /\ pc = "idle"
    /\ \E ls \in {"unlabeled", "partial", "labeled", "bogus"},
          es \in {"not excluded", "excluded", "validation", "bogus"},
          q \in Queries, optimized \in BOOLEAN :
         LET out == find_subset(df, ls, es, q.s, optimized)
         IN  /\ out.kind # "error"
             /\ query' = [label_status |-> ls, exclude_status |-> es,
                          kind |-> q.kind, name |-> q.name, s |-> q.s]
             /\ result' = out
    /\ op' = "find_subset"
    /\ pc' = "done"
    /\ UNCHANGED <<df, indexlist, err, sampling, N, p, inds, n, i, j, drawn>>
    /\ UNCHANGED <<loaderVars, load, assemblerVars, clusterVars, maskgen>>

\* one call of find_subset that raises
find_subset_Raise ==
    /\ pc = "idle"
    /\ \E ls \in {"unlabeled", "partial", "labeled", "bogus"},
          es \in {"not excluded", "excluded", "validation", "bogus"},
          q \in Queries, optimized \in BOOLEAN :
         LET out == find_subset(df, ls, es, q.s, optimized)
         IN  /\ out.kind = "error"
             /\ query' = [label_status |-> ls, exclude_status |-> es,
                          kind |-> q.kind, name |-> q.name, s |-> q.s]
             /\ err' = out.err
    /\ op' = "find_subset"
    /\ pc' = "error"
    /\ UNCHANGED <<df, indexlist, sampling, N, p, inds, n, i, j, drawn, result>>
    /\ UNCHANGED <<loaderVars, load, assemblerVars, clusterVars, maskgen>>

\* ---------------------------------------------------------- specification
SamplerIdle ==
    /\ indexlist = None
    /\ pc = "start"
    /\ op = "none"
    /\ err = "none"
    /\ sampling = "class"
    /\ N = 0
    /\ p = <<>>
    /\ inds = <<>>
    /\ n = 0
    /\ i = 0
    /\ j = 0
    /\ drawn = <<>>
    /\ result = NoResult

Init ==
    /\ df = EmptyTable
    /\ SamplerIdle
    /\ lpc = "start"
    /\ fps = <<>>
    /\ imtypes = <<>>
    /\ load = NoLoad
    /\ apc = "start"
    /\ args = NoArgs
    /\ classified = <<>>
    /\ tags = <<>>
    /\ ds = None
    /\ num_steps = 0
    /\ batches = <<>>
    /\ aerr = "none"
    /\ cpc = "start"
    /\ cargs = NoClusterArgs
    /\ indices = <<>>
    /\ nclusters = 0
    /\ samples_per_cluster = 0
    /\ cluster = 0
    /\ sampled_indices = <<>>
    /\ sampled_labels = <<>>
    /\ cerr = "none"
    /\ maskgen = NoMask
    /\ query = NoQuery

Next ==
    \/ LabelTable
    \/ Precompute
    \/ \E s \in Samplings : \E nn \in 0..MaxN : stratified_sample_Call(s, nn)
    \/ stratified_sample_Draw
    \/ stratified_sample_DrawEmpty
    \/ \E return_indices \in BOOLEAN : stratified_sample_Return(return_indices)
    \/ \E nn \in 0..MaxN : unlabeled_sample(nn)
    \/ \E nn \in 0..MaxN : unlabeled_sample_Empty(nn)
    \/ find_labels

Spec == Init /\ [][Next]_vars

\* the file-type classifier on its own
NextLoaders ==
    \/ GivePaths
    \/ Classify

SpecLoaders == Init /\ [][NextLoaders]_vars

\* stratified_sample on a table that its caller changes between the
\* computation of the pools and the call
NextMutate ==
    \/ LabelTable
    \/ Precompute
    \/ \E r \in Index(df) : \E flag \in {"exclude", "validation"} : FlagRow(r, flag)
    \/ \E nn \in 0..MaxN : stratified_sample_Call("class", nn)
    \/ stratified_sample_Draw
    \/ stratified_sample_DrawEmpty
    \/ stratified_sample_Return(TRUE)

SpecMutate == Init /\ [][NextMutate]_vars

\* the load function on its own
NextLoad ==
    \/ _build_load_function
    \/ LoadImage

SpecLoad == Init /\ [][NextLoad]_vars

\* dataset() on path input, and one pass over its stream
NextDataset ==
    \/ dataset_Call
    \/ _image_file_dataset_Single
    \/ _image_file_dataset_AssertionError
    \/ _image_file_dataset_IndexError
    \/ _image_file_dataset_Dual
    \/ dataset_Return
    \/ shuffle_Fill
    \/ shuffle_Next
    \/ source_Next
    \/ map_Load
    \/ map_LoadError
    \/ batch_Next
    \/ dataset_End

SpecDataset == Init /\ [][NextDataset]_vars

\* the cluster-stratified sampler up to its call of dataset()
NextCluster ==
    \/ stratified_training_dataset_Call
    \/ stratified_training_dataset_IndexError
    \/ stratified_training_dataset_Sample
    \/ stratified_training_dataset_Skip
    \/ stratified_training_dataset_Reorder
    \/ stratified_training_dataset_Return
    \/ stratified_training_dataset_Empty

SpecCluster == Init /\ [][NextCluster]_vars

\* the mask generator on its own
NextMask ==
    \/ mask_generator
    \/ mask_generator_Next
    \/ mask_generator_ValueError

SpecMask == Init /\ [][NextMask]_vars

\* find_subset on its own
NextSubset ==
    \/ LabelSubsetTable
    \/ find_subset_Return
    \/ find_subset_Raise

SpecSubset == Init /\ [][NextSubset]_vars

\* ------------------------------------------------------------------ claims
\* what the claims speak of, stated on the table itself
CategoryColumns(d) == Range(d.columns) \ PROTECTED_COLUMN_NAMES

AllMissing(d, r) == \A c \in CategoryColumns(d) : d.rows[r][c] = NaN
NoneMissing(d, r) == \A c \in CategoryColumns(d) : d.rows[r][c] # NaN

Flagged(d, r) == d.rows[r]["exclude"] = TRUE \/ d.rows[r]["validation"] = TRUE

\* the rows with C == v that are neither excluded nor validation rows
PoolSet(d, c, v) == {r \in Index(d) : d.rows[r][c] = v /\ ~Flagged(d, r)}

\* the rows a stratified sample may hold
Eligible(d, r) == ~Flagged(d, r) /\ ~AllMissing(d, r)

AcceptedSamplings == {"class", "instance", "squareroot"}

ExactlyOne(a, b, c) == (a /\ ~b /\ ~c) \/ (~a /\ b /\ ~c) \/ (~a /\ ~b /\ c)

Masked == pc = "done" /\ op = "find_labels"

\* C1 as stated: in every label table, also one with no category column,
\* every row satisfies exactly one of find_unlabeled, find_partially_labeled
\* and find_fully_labeled.
C1_PartitionOfEveryTable ==
    Masked =>
        \A r \in Index(df) :
            ExactlyOne(result.unlabeled[r], result.partial[r], result.labeled[r])

\* C1 amended: in every label table with at least one category column every
\* row satisfies exactly one of the three predicates; in a table with no
\* category column every row satisfies find_unlabeled and find_fully_labeled
\* both, and not find_partially_labeled.
C1_PartitionWithCategories ==
    Masked =>
        \A r \in Index(df) :
            IF CategoryColumns(df) # {}
            THEN ExactlyOne(result.unlabeled[r], result.partial[r], result.labeled[r])
            ELSE result.unlabeled[r] /\ result.labeled[r] /\ ~result.partial[r]

C1_Witness ==
    /\ Masked
    /\ CategoryColumns(df) # {}
    /\ \E r \in Index(df) : result.partial[r] /\ ~AllMissing(df, r) /\ ~NoneMissing(df, r)
    /\ \E r \in Index(df) : result.labeled[r] /\ NoneMissing(df, r)

Sampled == pc = "done" /\ op = "stratified_sample"

\* C2 as stated: every label vector stratified_sample returns holds, for
\* every category column, 0 or 1 where the sampled row has a value and -1
\* where the row's value is missing; none holds a missing value.
C2_MissingIsMinusOne ==
    Sampled =>
        LET categories == label_types(df)
        IN  \A k \in 1..Len(result.ys) : \A c \in 1..Len(categories) :
                LET v == df.rows[drawn[k]][categories[c]]
                IN  /\ result.ys[k][c] # NaN
                    /\ result.ys[k][c] = (IF v = NaN THEN -1 ELSE v)

\* the qualifying (category, value) pairs of the table, every category in
\* column order, 0 before 1
QualifyingPairs(d) ==
    LET cats == SelectSeq(d.columns, LAMBDA x : x \notin PROTECTED_COLUMN_NAMES)
        all == [k \in 1..(2 * Len(cats)) |->
                   <<cats[(k + 1) \div 2], IF k % 2 = 1 THEN 0 ELSE 1>>]
    IN  SelectSeq(all, LAMBDA pr : PoolSet(d, pr[1], pr[2]) # {})

C4_NEntriesInDrawOrder ==
    /\ (op = "stratified_sample" /\ pc = "loop") =>
          /\ n = Len(drawn) /\ n <= N /\ Len(inds) = N
          /\ \A k \in 1..n : inds[k] = drawn[k]
          /\ n > 0 => (j = drawn[n] /\ j \in Range(indexlist.val[i]))
    /\ Sampled =>
          /\ Len(drawn) = N /\ Len(result.first) = N /\ Len(result.ys) = N
          /\ \A k \in 1..N :
               /\ Eligible(df, drawn[k])
               /\ result.first[k] = (IF result.return_indices THEN drawn[k]
                                     ELSE df.rows[drawn[k]]["filepath"])
    /\ (op = "stratified_sample" /\ sampling \in AcceptedSamplings /\ N = 0) =>
          /\ pc \in {"loop", "done"}
          /\ pc = "loop" => ENABLED stratified_sample_Return(TRUE)

C4_Witness ==
    /\ Sampled
    /\ N = 2
    /\ drawn = <<2, 1>>
    /\ result.first = <<df.rows[2]["filepath"], df.rows[1]["filepath"]>>

Looping == op = "stratified_sample" /\ pc = "loop"

\* C5: with K >= 1 pools the probability of pool k is 1/K under "class"
\* and |pool k| / (the sum of the pool sizes) under "instance"; under every
\* accepted policy the probabilities are non-negative and sum to 1.
C5_PoolProbabilities ==
    (Looping /\ Len(indexlist.val) >= 1) =>
        LET il == indexlist.val
            K == Len(il)
            total == Sum([k \in 1..K |-> Len(il[k])])
        IN  /\ Len(p) = K
            /\ \A k \in 1..K : p[k][1] >= 0 /\ p[k][2] > 0 /\ p[k][2] = p[1][2]
            /\ Sum([k \in 1..K |-> p[k][1]]) = p[1][2]
            /\ sampling = "class" => \A k \in 1..K : p[k][1] * K = p[k][2]
            /\ sampling = "instance" =>
                 \A k \in 1..K : p[k][1] * total = p[k][2] * Len(il[k])

C5_Witness ==
    /\ Looping
    /\ sampling = "instance"
    /\ Len(indexlist.val) = 3
    /\ Len(indexlist.val[1]) = 2
    /\ Len(indexlist.val[2]) = 1
    /\ p[1][1] * 4 = p[1][2] * 2

\* the probability that one draw yields row r, as a numerator over the
\* common denominator p[1][2] * (the product of the pool sizes)
RowProbNum(r) ==
    LET il == indexlist.val
        L == prod([k \in 1..Len(il) |-> Len(il[k])])
    IN  Sum([k \in 1..Len(il) |->
               IF r \in Range(il[k]) THEN p[k][1] * (L \div Len(il[k])) ELSE 0])

\* C6 as stated: under "instance" a draw yields every eligible row with the
\* same probability, also when rows are labeled in different numbers of
\* categories.
C6_InstanceIsUniformOverRows ==
    (Looping /\ sampling = "instance" /\ n < N) =>
        \A r1, r2 \in {r \in Index(df) : Eligible(df, r)} :
            RowProbNum(r1) = RowProbNum(r2)

\* C7: with a policy other than "class", "instance" and "squareroot" the
\* call fails, whatever the table, N and the pools given, before anything
\* is drawn and without a result.
C7_UnknownPolicyFails ==
    (op = "stratified_sample" /\ sampling \notin AcceptedSamplings) =>
        /\ pc = "error"
        /\ err \in {"AssertionError", "UnboundLocalError"}
        /\ drawn = <<>>
        /\ result = NoResult

C7_Witness ==
    /\ op = "stratified_sample"
    /\ sampling = "uniform"
    /\ pc = "error"
    /\ N = 0
    /\ Len(indexlist.val) > 0

NoPools ==
    /\ op = "stratified_sample"
    /\ sampling \in AcceptedSamplings
    /\ indexlist.val = <<>>

\* C8 as stated: with an empty pool list stratified_sample returns no
\* result, for every accepted policy and every N.
C8_NoPoolsNeverReturns == NoPools => pc # "done"

\* C8 amended: with an empty pool list and N >= 1 stratified_sample fails
\* with the ValueError of its first draw and returns no result, for every
\* accepted policy; with N = 0 it returns an empty result.
C8_NoPoolsFailWhenNPositive ==
    /\ (NoPools /\ N >= 1) =>
          /\ pc \in {"loop", "error"}
          /\ result = NoResult
          /\ drawn = <<>>
          /\ pc = "loop" => (n = 0 /\ ENABLED stratified_sample_DrawEmpty)
          /\ pc = "error" => err = "ValueError"
    /\ (NoPools /\ N = 0 /\ pc = "done") =>
          result.first = <<>> /\ result.ys = <<>>

C8_Witness ==
    /\ NoPools
    /\ N >= 1
    /\ pc = "error"
    /\ err = "ValueError"
    /\ \E r \in Index(df) : Flagged(df, r) /\ ~AllMissing(df, r)

\* C9: unlabeled_sample returns exactly N filepaths, each of a row whose
\* category columns are all missing; with no such row it fails when N > 0
\* and returns an empty result when N = 0.
C9_UnlabeledSample ==
    op = "unlabeled_sample" =>
        LET U == {r \in Index(df) : AllMissing(df, r)}
        IN  /\ pc \in {"done", "error"}
            /\ pc = "error" <=> (U = {} /\ N > 0)
            /\ pc = "error" => (err = "ValueError" /\ result = NoResult)
            /\ pc = "done" =>
                 /\ Len(result.first) = N
                 /\ \A k \in 1..N : \E r \in U : result.first[k] = df.rows[r]["filepath"]

C9_Witness ==
    /\ op = "unlabeled_sample"
    /\ pc = "done"
    /\ N = 2
    /\ result.first[1] = result.first[2]
    /\ \E r \in Index(df) : ~AllMissing(df, r)

\* the extension of a path: from the last dot of its last component on,
\* empty when that component has no dot
Extension(fp) ==
    LET slashes == {k \in 1..Len(fp) : fp[k] = "/"}
        from == IF slashes = {} THEN 1
                ELSE 1 + CHOOSE k \in slashes : \A m \in slashes : m <= k
        dots == {k \in from..Len(fp) : fp[k] = "."}
    IN  IF dots = {} THEN <<>>
        ELSE SubSeq(fp, CHOOSE k \in dots : \A m \in dots : m <= k, Len(fp))

\* the codec tag the extension names
TagOfExtension(e) ==
    LET x == lower(e)
    IN  IF x \in {<<".", "j", "p", "g">>, <<".", "j", "p", "e", "g">>} THEN 1
        ELSE IF x = <<".", "g", "i", "f">> THEN 2
        ELSE IF x \in {<<".", "t", "i", "f">>, <<".", "t", "i", "f", "f">>} THEN 3
        ELSE 0

\* C10 as stated: the tag of a path depends only on its extension, compared
\* without case: .jpg and .jpeg give 1, .gif 2, .tif and .tiff 3, any other
\* extension 0; two paths with the same extension get the same tag.
C10_TagFollowsExtension ==
    lpc = "classified" =>
        /\ \A k \in 1..Len(fps) : imtypes[k] = TagOfExtension(Extension(fps[k]))
        /\ \A k, m \in 1..Len(fps) :
             lower(Extension(fps[k])) = lower(Extension(fps[m])) => imtypes[k] = imtypes[m]

\* what the dataset claims speak of
Dual == apc \notin {"start", "called"} /\ ~args.fps.single

\* the items of the manifest: the length of the (first) path list
Items == Len(args.fps.lists[1])

\* the examples emitted so far, batch after batch
RECURSIVE Flatten(_)
Flatten(bs) == IF bs = <<>> THEN <<>> ELSE Head(bs) \o Flatten(Tail(bs))

\* the pass over the stream is over: it came to its end or it was aborted
PassOver == apc = "done" \/ (apc = "error" /\ ~ds.none)

\* how many positions of a sequence hold v
Count(s, v) == Cardinality({k \in 1..Len(s) : s[k] = v})

\* C11 as stated: in dual-input mode the call fails with a configuration
\* error exactly when the number of path lists is not 2, and it fails
\* before any path is classified and before any stream is constructed.
C11_DualArityChecked ==
    Dual =>
        /\ Len(args.fps.lists) # 2 =>
              /\ apc = "error"
              /\ aerr = "AssertionError"
              /\ classified = <<>>
              /\ ds.none
        /\ Len(args.fps.lists) = 2 => aerr # "AssertionError"

\* C12 as stated: every path list of the manifest is classified exactly
\* once before the stream is built; the entries that are shuffled are
\* (path, tag, label) entries not yet decoded; every emitted example was
\* decoded, then augmented when augmentation is on, then batched, from its
\* path with the tag of that path, and carries the label of its manifest
\* position; when the pass is over the emitted (path, label) pairs are the
\* manifest's, each as often as the manifest holds it.
C12_ManifestOrderAndPairing ==
    (~ds.none) =>
        LET m == args.fps
            emitted == Flatten(batches)
            pairs == [k \in 1..Items |->
                         <<[c \in 1..Len(m.lists) |-> m.lists[c][k]],
                           IF args.ys.none THEN None ELSE Some(args.ys.val[k])>>]
            out == [k \in 1..Len(emitted) |->
                       <<[c \in 1..Len(emitted[k].x) |-> emitted[k].x[c].path],
                         emitted[k].y>>]
        IN  /\ classified = m.lists
            /\ \A k \in 1..Len(emitted) :
                 /\ \A c \in 1..Len(emitted[k].x) :
                      /\ emitted[k].x[c].t = ImType(emitted[k].x[c].path)
                      /\ emitted[k].x[c].img.kind = "tensor"
                      /\ emitted[k].x[c].img.augmented = args.augment
                 /\ \E pos \in 1..Items : out[k] = pairs[pos]
            /\ PassOver =>
                 /\ Len(out) = Len(pairs)
                 /\ \A k \in 1..Len(pairs) : Count(out, pairs[k]) = Count(pairs, pairs[k])

\* C13 as stated: on path input with T >= 1 items and batch size B >= 1
\* num_steps is ceil(T/B), T being the length of the first path list of a
\* dual input, and a pass emits exactly that many batches: all but the last
\* of B examples, the last of T mod B when that is not zero and of B
\* otherwise, T examples in all.
C13_BatchesAndSteps ==
    (~ds.none) =>
        LET T == Items
            B == args.batch_size
            steps == IF T % B = 0 THEN T \div B ELSE T \div B + 1
        IN  /\ num_steps = steps
            /\ PassOver =>
                 /\ Len(batches) = steps
                 /\ \A k \in 1..(Len(batches) - 1) : Len(batches[k]) = B
                 /\ Len(batches[Len(batches)]) = (IF T % B # 0 THEN T % B ELSE B)
                 /\ Len(Flatten(batches)) = T

\* the loop of stratified_training_dataset is over
ClusterLoopOver == cpc \in {"reordered", "done", "error"}

\* C15 as stated: with K = max(y) + 1 and multiplier m the sampler draws
\* m * floor(total / K) samples for every cluster that has a member and none
\* for a cluster without, total being the number of items; every sampled
\* index is a member of the cluster it is labeled with, before and after
\* the random reordering.
C15_SamplesPerCluster ==
    /\ \A q \in 1..Len(sampled_indices) :
          /\ Len(sampled_labels) = Len(sampled_indices)
          /\ cargs.y[sampled_indices[q]] = sampled_labels[q]
    /\ ClusterLoopOver =>
          LET total == Len(cargs.y)
              clusters == 0..max(cargs.y)
              per == cargs.mult * (total \div (max(cargs.y) + 1))
              nonempty == {c \in clusters : \E q \in 1..total : cargs.y[q] = c}
          IN  /\ \A c \in clusters :
                   Count(sampled_labels, c) = (IF c \in nonempty THEN per ELSE 0)
              /\ Len(sampled_indices) = per * Cardinality(nonempty)

\* C16 as stated: every mask yielded is one non-empty axis-aligned rectangle
\* of True cells inside the image, the same in every channel, whose width
\* and whose height are each between 5% and 45% of (H + W) / 2.
C16_MaskIsBoundedRectangle ==
    maskgen.pc = "yielded" =>
        LET g == maskgen
            rows == {cell[1] : cell \in g.mask}
            cols == {cell[2] : cell \in g.mask}
            height == Cardinality(rows)
            width == Cardinality(cols)
        IN  /\ g.mask # {}
            /\ g.mask = rows \X cols \X (0..(g.C - 1))
            /\ rows \subseteq 0..(g.H - 1) /\ cols \subseteq 0..(g.W - 1)
            /\ \A r1, r2 \in rows : \A r \in r1..r2 : r \in rows
            /\ \A c1, c2 \in cols : \A c \in c1..c2 : c \in cols
            /\ 40 * width >= g.H + g.W /\ 40 * width <= 9 * (g.H + g.W)
            /\ 40 * height >= g.H + g.W /\ 40 * height <= 9 * (g.H + g.W)

\* C17 as stated: whatever the caller did to the table before the call, and
\* also when it passes pools computed before it changed the table, the pools
\* a call draws from are the pools of the table as it is at the call, so that
\* no call returns a row that is excluded or a validation row at the call.
C17_PoolsOfTheTableAtTheCall ==
    /\ (op = "stratified_sample" /\ pc \in {"loop", "done"}) =>
          indexlist.val = _prepare_df_for_stratified_sampling(df)
    /\ Sampled => \A q \in 1..Len(drawn) : ~Flagged(df, drawn[q])

\* what the query of the last find_subset call asks of row r of the table
QueryHolds(r) ==
    CASE query.kind = "all" -> TRUE
      [] query.kind = "contains" -> df.rows[r][query.name] = 1
      [] query.kind = "doesn't contain" -> df.rows[r][query.name] = 0
      [] query.kind = "subset" -> df.rows[r]["subset"] = Chars[query.name]
      [] query.kind = "unlabeled" -> isnull(df.rows[r][query.name])
      [] OTHER -> FALSE

LabelStatusHolds(r) ==
    CASE query.label_status = "unlabeled" -> find_unlabeled(df)[r]
      [] query.label_status = "partial" -> find_partially_labeled(df)[r]
      [] OTHER -> find_fully_labeled(df)[r]

ExcludeStatusHolds(r) ==
    CASE query.exclude_status = "not excluded" -> df.rows[r]["exclude"] # TRUE
      [] query.exclude_status = "excluded" -> df.rows[r]["exclude"] = TRUE
      [] OTHER -> df.rows[r]["validation"] = TRUE

QueryRecognized ==
    /\ query.label_status \in {"unlabeled", "partial", "labeled"}
    /\ query.exclude_status \in {"not excluded", "excluded", "validation"}
    /\ query.kind # "none"

SubsetOver == op = "find_subset" /\ pc \in {"done", "error"}

\* C18 as stated: find_subset returns exactly the rows that satisfy the
\* label-status predicate, the exclude-status predicate and the query named
\* by s, the kind of the query being chosen by its keyword whatever the
\* category or subset name is; an unrecognized label_status, exclude_status
\* or s fails with an error and returns no mask.
C18_QueryLanguage ==
    SubsetOver =>
        IF QueryRecognized
        THEN /\ pc = "done"
             /\ result.kind = "mask"
             /\ \A r \in Index(df) :
                    result.mask[r] = (/\ LabelStatusHolds(r)
                                      /\ ExcludeStatusHolds(r)
                                      /\ QueryHolds(r))
        ELSE /\ pc = "error"
             /\ err \in {"AssertionError", "UnboundLocalError"}
             /\ result = NoResult

\* C19 as stated: with shuffle on, the shuffle buffer holds as many entries
\* as the manifest has items, of a list of paths and of a dual input alike
\* (a smaller buffer cannot emit a late entry first).
C19_ShuffleBufferHoldsManifest ==
    (~ds.none /\ args.shuffle) => ds.val.buffer_size >= Items

\* C14 as stated: the load function returns, for every codec tag and every
\* native shape and channel count of the file, a tensor of shape exactly
\* (H, W, num_channels), and never one of another shape.
C14_ShapeForEveryCodec ==
    load.pc \in {"returned", "raised"} =>
        /\ load.img.kind = "tensor"
        /\ load.img.shape = <<load.imshape[1], load.imshape[2], load.num_channels>>

====
